---- MODULE Spec2Model ----
(***************************************************************************)
(* The background fetch-and-cache subsystem of snui: the Item Store and    *)
(* Content Cache of State (src/src/state.rs), the Fetcher with its result  *)
(* channel, in-flight counter and worker threads (src/src/fetch.rs), and   *)
(* the window selector current_buffer.                                     *)
(***************************************************************************)
EXTENDS Integers, Sequences, FiniteSets, Bags, TLC

\* ------------------------------------------------------------------ bounds
MaxPosts == 3       \* items the Item Store may hold in one feed session
MaxYield == 2       \* results the provider yields to one page pull
MaxCap == 2         \* largest cache capacity tried
MaxAmount == 2      \* largest buffer_amount tried in the fetch model
MaxWorkers == 2     \* worker threads alive at once
MaxSenders == 2     \* cap of the in-flight counter
MaxResets == 1      \* feed replacements
RatioDen == 4       \* buffer_ratio is k / RatioDen, k in 0..RatioDen
WinMaxLen == 7      \* window selector: longest vector tried
WinMaxAmount == 5   \* window selector: largest amount tried
MaxHist == 4        \* cache alone: operations applied to it
CfgMaxAmount == 52  \* configuration alone: largest buffer_amount of a file
PageMaxYield == 16  \* page pull alone: results the provider yields to it
UiMaxKeys == 20     \* iced application alone: key presses in one direction
CfgMaxRatio == 3    \* configuration alone: buffer_ratio of a file goes this
                    \* many hundredths below 0 and above 1

\* --------------------------------------------------------- program constants
PageLimit == 15     \* take(15) of a page pull
CacheCapacity == 250   \* LruCache::new(250)
DefaultAmount == 25    \* buffer_amount.unwrap_or(25)
AmountLimit == 50      \* .min(50)
AmountFloor == 1       \* .max(1)
DefaultRatio == 75     \* buffer_ratio.unwrap_or(0.75), in hundredths
OneF32 == 100          \* 1f32, in hundredths

VARIABLES
    posts,            \* State.posts: sequence of ViewablePost
    feed,             \* State.feed: None, or Some(handle of the feed of a session)
    active_filters,   \* State.active_filters: is filter 0 installed
    content_cache,    \* State.content_cache: entries, most recently used first
    mark_for_refresh, \* State.mark_for_refresh
    viewed,           \* State.feed_component.viewed
    highlighted,      \* State.feed_component.highlighted
    opts,             \* State.options and the capacity of the cache
    num_senders,      \* Fetcher.num_senders
    chan,             \* messages queued on the Fetcher's current channel
    epoch,            \* identity of the Fetcher's current channel
    workers,          \* bag of running worker threads
    session,          \* number of the current feed session
    panic,            \* "none", or the assertion / check that aborted the program
    last,             \* the last step taken: its name, message and dispatches
    win,              \* window selector: the inputs
    wout,             \* window selector: the result
    hist,             \* cache alone: the operations applied so far
    cfg,              \* configuration alone: the file and the options made of it
    page              \* page pull alone: what the provider yields to the pull

vars == <<posts, feed, active_filters, content_cache, mark_for_refresh, viewed,
          highlighted, opts, num_senders, chan, epoch, workers, session, panic,
          last, win, wout, hist, cfg, page>>

stateVars == <<posts, feed, active_filters, content_cache, mark_for_refresh,
               viewed, highlighted>>
fetchVars == <<num_senders, chan, epoch, workers>>
winVars == <<win, wout>>
lruVars == <<hist>>
cfgVars == <<cfg>>
pageVars == <<page>>

Min(a, b) == IF a < b THEN a ELSE b

\* ------------------------------------------------------------ LruCache
NoEntry == "absent"

Keys(c) == {c[i].k : i \in 1..Len(c)}

LruContains(c, k) == k \in Keys(c)

LruPeek(c, k) ==
    IF LruContains(c, k)
    THEN (CHOOSE i \in 1..Len(c) : c[i].k = k)
    ELSE 0

LruVal(c, k) == IF LruContains(c, k) THEN c[LruPeek(c, k)].v ELSE NoEntry

LruRemove(c, k) == SelectSeq(c, LAMBDA e : e.k # k)

LruGetNoTouch(c, k) == c

\* get / get_mut: a hit moves the entry to the most-recently-used end
LruGet(c, k) ==
    IF LruContains(c, k)
    THEN <<c[LruPeek(c, k)]>> \o LruRemove(c, k)
    ELSE c

LruPutNoEvict(c, cap, k, v) ==
    <<[k |-> k, v |-> v]>> \o LruRemove(c, k)

LruPutSparePending(c, cap, k, v) ==
    LET resolved == {i \in 1..Len(c) : c[i].v # "pending"}
        out == IF resolved = {} THEN Len(c)
               ELSE CHOOSE i \in resolved : \A j \in resolved : j <= i
    IN  IF LruContains(c, k)
        THEN <<[k |-> k, v |-> v]>> \o LruRemove(c, k)
        ELSE IF Len(c) >= cap
             THEN <<[k |-> k, v |-> v]>> \o LruRemove(c, c[out].k)
             ELSE <<[k |-> k, v |-> v]>> \o c

\* put: replaces the value of a present key; a new key at capacity evicts
\* the least recently used entry
LruPut(c, cap, k, v) ==
    IF LruContains(c, k)
    THEN <<[k |-> k, v |-> v]>> \o LruRemove(c, k)
    ELSE IF Len(c) >= cap
         THEN <<[k |-> k, v |-> v]>> \o SubSeq(c, 1, cap - 1)
         ELSE <<[k |-> k, v |-> v]>> \o c

\* ------------------------------------------------------------ current_buffer
\* f32::round of the non-negative num / den: half away from zero
Round(num, den) == (2 * num + den) \div (2 * den)

right_side(amount, ratio) == Round(ratio * amount, RatioDen)
left_side(amount, ratio) == Round((RatioDen - ratio) * amount, RatioDen)

\* the slice vec[lo..hi] of a vector of length len; it panics when lo > hi
\* or hi > len
Slice(lo, hi, len) ==
    IF lo > hi \/ hi > len
    THEN [lo |-> 0, hi |-> 0, panic |-> TRUE]
    ELSE [lo |-> lo, hi |-> hi, panic |-> FALSE]

current_buffer_lt(len, idx, amount, ratio) ==
    LET r == right_side(amount, ratio)
        l == left_side(amount, ratio)
    IN  IF len < amount THEN Slice(0, len, len)
        ELSE IF idx < l THEN Slice(0, idx + r, len)
        ELSE IF idx + r > len THEN Slice(idx - l, len - 1, len)
        ELSE Slice(idx - l, idx + r, len)

current_buffer_noend(len, idx, amount, ratio) ==
    LET r == right_side(amount, ratio)
        l == left_side(amount, ratio)
    IN  IF len <= amount THEN Slice(0, len, len)
        ELSE IF idx < l THEN Slice(0, idx + r, len)
        ELSE Slice(idx - l, idx + r, len)

current_buffer_back(len, idx, amount, ratio) ==
    LET r == right_side(amount, ratio)
        l == left_side(amount, ratio)
    IN  IF len <= amount THEN Slice(0, len, len)
        ELSE IF idx < l THEN Slice(0, r, len)
        ELSE IF idx + r > len THEN Slice(idx - l, len - 1, len)
        ELSE Slice(idx - l, idx + r, len)

current_buffer(len, idx, amount, ratio) ==
    LET r == right_side(amount, ratio)
        l == left_side(amount, ratio)
    IN  IF len <= amount THEN Slice(0, len, len)
        ELSE IF idx < l THEN Slice(0, idx + r, len)
        ELSE IF idx + r > len THEN Slice(idx - l, len - 1, len)
        ELSE Slice(idx - l, idx + r, len)


\* ------------------------------------------------------------ State
\* Option<PostFeed>
None == [some |-> FALSE, handle |-> 0]
Some(handle) == [some |-> TRUE, handle |-> handle]

ViewablePost(idx, renderable) == [post_id |-> idx, renderable |-> renderable]

filter_posts_none(ps, filters) == ps

\* the posts every active filter accepts, in store order
filter_posts(ps, filters) ==
    IF filters THEN SelectSeq(ps, LAMBDA p : p.renderable) ELSE ps

extend_posts_restart(ps, items) ==
    ps \o [i \in 1..Len(items) |-> ViewablePost(i - 1, items[i])]

RECURSIVE extend_posts(_, _)
extend_posts(ps, items) ==
    IF items = <<>> THEN ps
    ELSE extend_posts(Append(ps, ViewablePost(Len(ps), Head(items))), Tail(items))

\* *entry = Some(content) through the reference get_mut returned
Assign(c, post_id, content) ==
    <<[k |-> post_id, v |-> content]>> \o LruRemove(c, post_id)

set_content_unchecked(c, post_id, content) ==
    IF LruContains(c, post_id)
    THEN [cache |-> Assign(c, post_id, content), panic |-> FALSE]
    ELSE [cache |-> c, panic |-> FALSE]

set_content_insert(c, post_id, content) ==
    IF LruContains(c, post_id) /\ LruVal(c, post_id) # "pending"
    THEN [cache |-> LruGet(c, post_id), panic |-> TRUE]
    ELSE [cache |-> Assign(c, post_id, content), panic |-> FALSE]

\* get_mut touches the entry, the assertion needs it to be empty (pending)
set_content(c, post_id, content) ==
    IF LruContains(c, post_id)
    THEN IF LruVal(c, post_id) # "pending"
         THEN [cache |-> LruGet(c, post_id), panic |-> TRUE]
         ELSE [cache |-> Assign(c, post_id, content), panic |-> FALSE]
    ELSE [cache |-> c, panic |-> FALSE]

\* one dispatch of the loop of buffer_posts: the post, whether its key was
\* cached when it was tested, and its entry right after the put
Dispatch(c0, c1, id) ==
    [id |-> id, was_cached |-> LruContains(c0, id), entry |-> LruVal(c1, id)]

RECURSIVE buffer_loop_all(_, _, _, _)
buffer_loop_all(window, c, cap, disp) ==
    IF window = <<>> THEN [cache |-> c, disp |-> disp]
    ELSE LET id == Head(window).post_id
             c1 == LruPut(c, cap, id, "pending")
         IN  buffer_loop_all(Tail(window), c1, cap, Append(disp, Dispatch(c, c1, id)))

RECURSIVE buffer_loop_refresh(_, _, _, _)
buffer_loop_refresh(window, c, cap, disp) ==
    IF window = <<>> THEN [cache |-> c, disp |-> disp]
    ELSE LET id == Head(window).post_id
         IN  IF LruContains(c, id)
             THEN buffer_loop_refresh(Tail(window),
                                      LruPut(c, cap, id, "pending"), cap, disp)
             ELSE LET c1 == LruPut(c, cap, id, "pending")
                  IN  buffer_loop_refresh(Tail(window), c1, cap,
                                          Append(disp, Dispatch(c, c1, id)))

RECURSIVE buffer_loop_retry(_, _, _, _)
buffer_loop_retry(window, c, cap, disp) ==
    IF window = <<>> THEN [cache |-> c, disp |-> disp]
    ELSE LET id == Head(window).post_id
         IN  IF LruContains(c, id) /\ LruVal(c, id) # "pending"
             THEN buffer_loop_retry(Tail(window), c, cap, disp)
             ELSE LET c1 == LruPut(c, cap, id, "pending")
                  IN  buffer_loop_retry(Tail(window), c1, cap,
                                        Append(disp, Dispatch(c, c1, id)))

\* for post in window { if !contains { put(None); get_content } }
RECURSIVE buffer_loop(_, _, _, _)
buffer_loop(window, c, cap, disp) ==
    IF window = <<>> THEN [cache |-> c, disp |-> disp]
    ELSE LET id == Head(window).post_id
         IN  IF LruContains(c, id)
             THEN buffer_loop(Tail(window), c, cap, disp)
             ELSE LET c1 == LruPut(c, cap, id, "pending")
                  IN  buffer_loop(Tail(window), c1, cap,
                                  Append(disp, Dispatch(c, c1, id)))

\* ------------------------------------------------------------ Fetcher
Worker(kind, id, sess) == [kind |-> kind, id |-> id, ch |-> epoch, sess |-> sess]

Msg(type, id, content, items, sess) ==
    [type |-> type, id |-> id, content |-> content, items |-> items, sess |-> sess]

NoMsg == Msg("none", 0, "none", <<>>, 0)

Step(op, msg, disp) == [op |-> op, msg |-> msg, disp |-> disp]

NumWorkers == BagCardinality(workers)

Spawn(w) == workers (+) SetToBag({w})
Exit(w) == workers (-) SetToBag({w})

\* sender.send: the message is queued when the receiver of the worker's
\* channel is alive, and lost when Fetcher::reset has dropped it
Send(w, m) == IF w.ch = epoch THEN Append(chan, m) ELSE chan

is_working == num_senders > 0

Running == panic = "none"


\* ------------------------------------------------------------ Options
\* Option<usize> and Option<f32> of FileConfig
Absent == [some |-> FALSE, v |-> 0]
AbsentF32 == [some |-> FALSE, v |-> [nan |-> FALSE, v |-> 0]]
Given(v) == [some |-> TRUE, v |-> v]

\* an f32 in hundredths, or NaN
F32(v) == [nan |-> FALSE, v |-> v]
NaN == [nan |-> TRUE, v |-> 0]

unwrap_or(o, d) == IF o.some THEN o.v ELSE d

Max(a, b) == IF a > b THEN a ELSE b

\* f32::min and f32::max: if one argument is NaN the other is returned
f32_min(a, b) ==
    IF a.nan THEN b ELSE IF b.nan THEN a ELSE IF a.v < b.v THEN a ELSE b
f32_max(a, b) ==
    IF a.nan THEN b ELSE IF b.nan THEN a ELSE IF a.v > b.v THEN a ELSE b

from_unclamped(fc) ==
    [buffer_amount |-> unwrap_or(fc.buffer_amount, DefaultAmount),
     buffer_ratio |-> unwrap_or(fc.buffer_ratio, F32(DefaultRatio))]

\* impl From<FileConfig> for Options, on buffer_amount and buffer_ratio
from(fc) ==
    [buffer_amount |->
        Max(Min(unwrap_or(fc.buffer_amount, DefaultAmount), AmountLimit),
            AmountFloor),
     buffer_ratio |->
        f32_max(f32_min(unwrap_or(fc.buffer_ratio, F32(DefaultRatio)),
                        F32(OneF32)),
                F32(0))]

\* the capacity empty_map and State::new give the cache
empty_map == CacheCapacity

FileConfigs ==
    [buffer_amount : {Absent} \cup {Given(a) : a \in 0..CfgMaxAmount},
     buffer_ratio : {AbsentF32, Given(NaN)} \cup
        {Given(F32(r)) : r \in (0 - CfgMaxRatio)..(OneF32 + CfgMaxRatio)}]

NoCfg == [set |-> FALSE, fc |-> [buffer_amount |-> Absent, buffer_ratio |-> AbsentF32],
          options |-> [buffer_amount |-> 0, buffer_ratio |-> F32(0)], cap |-> 0]

\* ------------------------------------------------------------ initial state
NoPage == [yield |-> <<>>, done |-> FALSE]

\* the options a configuration file can give (after clamping), and the
\* capacity of the cache, which holds at least one window
Options ==
    {o \in [cap : 1..MaxCap, buffer_amount : 1..MaxAmount,
            buffer_ratio : {RatioDen \div 2, RatioDen}] :
        left_side(o.buffer_amount, o.buffer_ratio)
          + right_side(o.buffer_amount, o.buffer_ratio) <= o.cap}

NoWin == [len |-> 0, idx |-> 0, amount |-> 1, ratio |-> 0]
NoOut == [lo |-> 0, hi |-> 0, panic |-> FALSE, set |-> FALSE]

\* State::new and Fetcher::default
Init ==
    /\ posts = <<>>
    /\ feed = Some(0)
    /\ active_filters = FALSE
    /\ content_cache = <<>>
    /\ mark_for_refresh = TRUE
    /\ viewed = 0
    /\ highlighted = 0
    /\ opts \in Options
    /\ num_senders = 0
    /\ chan = <<>>
    /\ epoch = 0
    /\ workers = EmptyBag
    /\ session = 0
    /\ panic = "none"
    /\ last = Step("Init", NoMsg, <<>>)
    /\ win = NoWin
    /\ wout = NoOut
    /\ hist = <<>>
    /\ cfg = NoCfg
    /\ page = NoPage

\* ------------------------------------------------------------ orchestrator
get_more_posts_keep_handle ==
    /\ num_senders' = num_senders + 1
    /\ IF feed.some
       THEN /\ workers' = Spawn(Worker("page", 0, feed.handle))
            /\ feed' = feed
       ELSE UNCHANGED <<workers, feed>>

\* Fetcher::get::<MorePosts>: the counter is raised, and MorePosts::fetch
\* spawns a worker only when it can take the feed handle
get_more_posts ==
    /\ num_senders' = num_senders + 1
    /\ IF feed.some
       THEN /\ workers' = Spawn(Worker("page", 0, feed.handle))
            /\ feed' = None
       ELSE UNCHANGED <<workers, feed>>

\* the first page of a feed is requested when the feed is marked for refresh
Refresh ==
    /\ Running
    /\ mark_for_refresh
    /\ num_senders < MaxSenders
    /\ feed.some => NumWorkers < MaxWorkers
    /\ get_more_posts
    /\ mark_for_refresh' = FALSE
    /\ last' = Step("Other", NoMsg, <<>>)
    /\ UNCHANGED <<posts, active_filters, content_cache, viewed, highlighted,
                   opts, chan, epoch, session, panic, winVars, lruVars, cfgVars, pageVars>>

\* a further page is requested
MorePosts ==
    /\ Running
    /\ ~mark_for_refresh
    /\ num_senders < MaxSenders
    /\ feed.some => NumWorkers < MaxWorkers
    /\ get_more_posts
    /\ last' = Step("Other", NoMsg, <<>>)
    /\ UNCHANGED <<posts, active_filters, content_cache, mark_for_refresh, viewed,
                   highlighted, opts, chan, epoch, session, panic, winVars, lruVars, cfgVars, pageVars>>

\* State::buffer_posts
BufferPosts ==
    /\ Running
    /\ LET current == filter_posts(posts, active_filters)
           w == current_buffer(Len(current), viewed, opts.buffer_amount,
                               opts.buffer_ratio)
           r == buffer_loop(SubSeq(current, w.lo + 1, w.hi), content_cache,
                            opts.cap, <<>>)
       IN  IF w.panic
           THEN /\ panic' = "slice"
                /\ last' = Step("BufferPosts", NoMsg, <<>>)
                /\ UNCHANGED <<content_cache, num_senders, workers>>
           ELSE /\ num_senders + Len(r.disp) <= MaxSenders
                /\ NumWorkers + Len(r.disp) <= MaxWorkers
                /\ content_cache' = r.cache
                /\ num_senders' = num_senders + Len(r.disp)
                /\ workers' = workers (+)
                      [w2 \in {Worker("content", r.disp[i].id, session) :
                                 i \in 1..Len(r.disp)} |-> 1]
                /\ last' = Step("BufferPosts", NoMsg, r.disp)
                /\ UNCHANGED panic
    /\ UNCHANGED <<posts, feed, active_filters, mark_for_refresh, viewed,
                   highlighted, opts, chan, epoch, session, winVars, lruVars, cfgVars, pageVars>>

\* the post render_summary_component hands to the summary component:
\* self.posts.get(viewed)
summary_post ==
    IF viewed < Len(posts) THEN Some(posts[viewed + 1].post_id) ELSE None

\* the post render_main_content looks up the content of:
\* filter_posts(..).skip(viewed).next()
main_post ==
    LET current == filter_posts(posts, active_filters)
    IN  IF viewed < Len(current) THEN Some(current[viewed + 1].post_id) ELSE None

\* State::render_main_content: the focused post of the filtered sequence is
\* looked up in the cache, which touches its entry
RenderMainContent ==
    /\ Running
    /\ LET current == filter_posts(posts, active_filters)
       IN  content_cache' =
              IF viewed < Len(current)
              THEN LruGet(content_cache, current[viewed + 1].post_id)
              ELSE content_cache
    /\ last' = Step("Other", NoMsg, <<>>)
    /\ UNCHANGED <<posts, feed, active_filters, mark_for_refresh, viewed,
                   highlighted, opts, fetchVars, session, panic, winVars, lruVars, cfgVars, pageVars>>

\* PostFeedComponent::posts and set_h_equal_v: a click on the i-th listed
\* post highlights it, and the highlighted post becomes the viewed one
View(i) ==
    /\ Running
    /\ i < Len(filter_posts(posts, active_filters))
    /\ i # viewed
    /\ highlighted' = i
    /\ viewed' = i
    /\ last' = Step("Other", NoMsg, <<>>)
    /\ UNCHANGED <<posts, feed, active_filters, content_cache, mark_for_refresh,
                   opts, fetchVars, session, panic, winVars, lruVars, cfgVars, pageVars>>

\* FilterWindow::show: the "only renderable" filter follows the checkbox
ToggleFilter ==
    /\ Running
    /\ active_filters' = ~active_filters
    /\ last' = Step("Other", NoMsg, <<>>)
    /\ UNCHANGED <<posts, feed, content_cache, mark_for_refresh, viewed,
                   highlighted, opts, fetchVars, session, panic, winVars, lruVars, cfgVars, pageVars>>


\* State::reset_feed, on the fields it assigns
reset_feed_keep_cache(st, new_feed) ==
    [st EXCEPT !.feed = new_feed, !.posts = <<>>,
               !.viewed = 0, !.highlighted = 0, !.mark_for_refresh = TRUE]

reset_feed_keep_focus(st, new_feed) ==
    [st EXCEPT !.feed = new_feed, !.posts = <<>>, !.content_cache = <<>>,
               !.mark_for_refresh = TRUE]

reset_feed(st, new_feed) ==
    [st EXCEPT !.feed = new_feed, !.posts = <<>>, !.content_cache = <<>>,
               !.viewed = 0, !.highlighted = 0, !.mark_for_refresh = TRUE]

\* Fetcher::reset: a new channel replaces the old one, whose receiver is
\* dropped with the messages queued on it
reset_same_channel(f) == [f EXCEPT !.num_senders = 0]

reset_none(f) == f

reset_keep_queue(f) ==
    [chan |-> f.chan, epoch |-> f.epoch + 1, num_senders |-> 0]

reset_keep_counter(f) ==
    [chan |-> <<>>, epoch |-> f.epoch + 1, num_senders |-> f.num_senders]

reset(f) == [chan |-> <<>>, epoch |-> f.epoch + 1, num_senders |-> 0]

\* the feed is replaced: SubredditWindow::show calls reset_feed, and the
\* Fetcher is reset with it
ReplaceFeed ==
    /\ Running
    /\ session < MaxResets
    /\ session' = session + 1
    /\ LET st == reset_feed([feed |-> feed, posts |-> posts,
                             content_cache |-> content_cache, viewed |-> viewed,
                             highlighted |-> highlighted,
                             mark_for_refresh |-> mark_for_refresh],
                            Some(session + 1))
           f == reset([chan |-> chan, epoch |-> epoch,
                       num_senders |-> num_senders])
       IN  /\ feed' = st.feed
           /\ posts' = st.posts
           /\ content_cache' = st.content_cache
           /\ viewed' = st.viewed
           /\ highlighted' = st.highlighted
           /\ mark_for_refresh' = st.mark_for_refresh
           /\ chan' = f.chan
           /\ epoch' = f.epoch
           /\ num_senders' = f.num_senders
    /\ last' = Step("Other", NoMsg, <<>>)
    /\ UNCHANGED <<active_filters, opts, workers, panic, winVars, lruVars, cfgVars, pageVars>>

try_recv_drain(q, n) ==
    IF q = <<>>
    THEN [msg |-> NoMsg, chan |-> q, num_senders |-> n, panic |-> FALSE]
    ELSE [msg |-> Head(q), chan |-> <<>>,
          num_senders |-> IF n < Len(q) THEN 0 ELSE n - Len(q),
          panic |-> n < Len(q)]

\* Fetcher::try_recv on the queue q with the counter n: the head of the
\* queue, if any, is taken and the counter lowered; num_senders -= 1 on a
\* u32 that is zero overflows, which aborts a build with overflow checks
try_recv(q, n) ==
    IF q = <<>>
    THEN [msg |-> NoMsg, chan |-> q, num_senders |-> n, panic |-> FALSE]
    ELSE [msg |-> Head(q), chan |-> Tail(q),
          num_senders |-> IF n = 0 THEN n ELSE n - 1, panic |-> n = 0]

\* State::set_feed
set_feed(old, new) == [feed |-> Some(new), panic |-> old.some]

decode_image_none(n, post_id, sess) ==
    [num_senders |-> n + 1, workers |-> workers]

\* Fetcher::decode_image: the counter is raised and a decoding thread spawned
decode_image(n, post_id, sess) ==
    [num_senders |-> n + 1, workers |-> Spawn(Worker("decode", post_id, sess))]

\* one poll of the result channel and the application of the outcome: a page
\* extends the store and returns the feed handle, image bytes are handed to
\* a decoding thread, any other content resolves the entry of its post
Poll ==
    /\ Running
    /\ LET r == try_recv(chan, num_senders)
           m == r.msg
       IN  /\ chan' = r.chan
           /\ last' = Step("Poll", m, <<>>)
           /\ IF r.panic
              THEN /\ panic' = "underflow"
                   /\ num_senders' = r.num_senders
                   /\ UNCHANGED <<posts, feed, content_cache, workers>>
              ELSE CASE m.type = "PostsReady" ->
                        LET f == set_feed(feed, m.sess)
                        IN  /\ posts' = extend_posts(posts, m.items)
                            /\ feed' = f.feed
                            /\ panic' = IF f.panic THEN "set_feed" ELSE "none"
                            /\ num_senders' = r.num_senders
                            /\ UNCHANGED <<content_cache, workers>>
                   [] m.type = "ContentReady" /\ m.content = "bytes" ->
                        LET d == decode_image(r.num_senders, m.id, m.sess)
                        IN  /\ num_senders' = d.num_senders
                            /\ workers' = d.workers
                            /\ UNCHANGED <<posts, feed, content_cache, panic>>
                   [] m.type \in {"ContentReady", "ImageDecoded"}
                        /\ m.content # "bytes" ->
                        LET c == set_content(content_cache, m.id, m.content)
                        IN  /\ content_cache' = c.cache
                            /\ panic' = IF c.panic THEN "set_content" ELSE "none"
                            /\ num_senders' = r.num_senders
                            /\ UNCHANGED <<posts, feed, workers>>
                   [] OTHER ->
                        /\ num_senders' = r.num_senders
                        /\ UNCHANGED <<posts, feed, content_cache, workers,
                                       panic>>
    /\ UNCHANGED <<active_filters, mark_for_refresh, viewed, highlighted, opts,
                   epoch, session, winVars, lruVars, cfgVars, pageVars>>

\* ------------------------------------------------------------ workers
\* what the provider lists: every other post is a link to an image, which the
\* "only renderable" filter accepts, the others are links it rejects
Renderable(idx) == idx % 2 = 0

\* what Post::get_content resolves a post to, when it succeeds
ContentOf(idx) == IF Renderable(idx) THEN "bytes" ELSE "text"

\* the results the provider yields to one pull: items, or errors
Yields == UNION {[1..n -> {"ok", "err"}] : n \in 0..MaxYield}

\* feed.by_ref().filter_map(|p| p.ok()).take(15).collect()
Collect_all(yield) == yield

Collect(yield) ==
    LET ok == SelectSeq(yield, LAMBDA y : y # "err")
    IN  SubSeq(ok, 1, Min(Len(ok), PageLimit))

\* the thread of MorePosts::fetch: the page is pulled and sent with the feed
PageWorker(w) ==
    /\ w.kind = "page"
    /\ \E yield \in Yields :
          LET items == [i \in 1..Len(Collect(yield)) |->
                           Renderable(Len(posts) + i - 1)]
          IN  /\ Len(posts) + Len(items) <= MaxPosts
              /\ chan' = Send(w, Msg("PostsReady", 0, "none", items, w.sess))
    /\ last' = Step(IF w.ch = epoch THEN "Other" ELSE "Lost", NoMsg, <<>>)

\* the thread of Fetcher::get_content: only a resolved content is sent
ContentWorker(w) ==
    /\ w.kind = "content"
    /\ \/ /\ chan' = Send(w, Msg("ContentReady", w.id, ContentOf(w.id), <<>>,
                              w.sess))
          /\ last' = Step(IF w.ch = epoch THEN "Other" ELSE "Lost", NoMsg, <<>>)
       \/ /\ chan' = chan
          /\ last' = Step("Failed", NoMsg, <<>>)

\* the thread of Fetcher::decode_image: load_from_memory(..).unwrap() ends
\* the thread on bytes that are no image
DecodeWorker(w) ==
    /\ w.kind = "decode"
    /\ \/ /\ chan' = Send(w, Msg("ImageDecoded", w.id, "image", <<>>, w.sess))
          /\ last' = Step(IF w.ch = epoch THEN "Other" ELSE "Lost", NoMsg, <<>>)
       \/ /\ chan' = chan
          /\ last' = Step("Failed", NoMsg, <<>>)

WorkerDoneWrites ==
    /\ Running
    /\ \E w \in BagToSet(workers) :
          /\ PageWorker(w) \/ ContentWorker(w) \/ DecodeWorker(w)
          /\ workers' = Exit(w)
          /\ content_cache' =
                IF w.kind = "content" /\ LruContains(content_cache, w.id)
                THEN Assign(content_cache, w.id, ContentOf(w.id))
                ELSE content_cache
    /\ UNCHANGED <<posts, feed, active_filters, mark_for_refresh, viewed,
                   highlighted, opts, num_senders, epoch, session, panic,
                   winVars, lruVars, cfgVars, pageVars>>

\* a worker thread runs to its end
WorkerDone ==
    /\ Running
    /\ \E w \in BagToSet(workers) :
          /\ PageWorker(w) \/ ContentWorker(w) \/ DecodeWorker(w)
          /\ workers' = Exit(w)
    /\ UNCHANGED <<stateVars, opts, num_senders, epoch, session, panic, winVars, lruVars, cfgVars, pageVars>>

Next ==
    \/ Refresh
    \/ MorePosts
    \/ BufferPosts
    \/ RenderMainContent
    \/ \E i \in 0..(MaxPosts - 1) : View(i)
    \/ ToggleFilter
    \/ ReplaceFeed
    \/ Poll
    \/ WorkerDone

Spec == Init /\ [][Next]_vars


\* ------------------------------------------------------------ the window selector alone
Scenarios ==
    {[len |-> 100, idx |-> i, amount |-> 10, ratio |-> (3 * RatioDen) \div 4] :
        i \in {1, 50, 99}}

WinInputs ==
    [len : 0..WinMaxLen, idx : 0..WinMaxLen, amount : 1..WinMaxAmount,
     ratio : 0..RatioDen] \cup Scenarios

InitWin ==
    /\ posts = <<>>
    /\ feed = Some(0)
    /\ active_filters = FALSE
    /\ content_cache = <<>>
    /\ mark_for_refresh = TRUE
    /\ viewed = 0
    /\ highlighted = 0
    /\ opts = [cap |-> 1, buffer_amount |-> 1, buffer_ratio |-> RatioDen]
    /\ num_senders = 0
    /\ chan = <<>>
    /\ epoch = 0
    /\ workers = EmptyBag
    /\ session = 0
    /\ panic = "none"
    /\ last = Step("Init", NoMsg, <<>>)
    /\ win \in WinInputs
    /\ wout = NoOut
    /\ hist = <<>>
    /\ cfg = NoCfg
    /\ page = NoPage

\* current_buffer is applied to a vector of win.len elements
Select ==
    /\ ~wout.set
    /\ LET w == current_buffer(win.len, win.idx, win.amount, win.ratio)
       IN  wout' = [lo |-> w.lo, hi |-> w.hi, panic |-> w.panic, set |-> TRUE]
    /\ UNCHANGED <<stateVars, opts, fetchVars, session, panic, last, win, lruVars, cfgVars, pageVars>>

NextWin == Select

SpecWin == InitWin /\ [][NextWin]_vars

\* ------------------------------------------------------------ the cache alone
\* the keys the operations are applied with
LruKeys == 0..MaxPosts

InitLru ==
    /\ posts = <<>>
    /\ feed = Some(0)
    /\ active_filters = FALSE
    /\ content_cache = <<>>
    /\ mark_for_refresh = TRUE
    /\ viewed = 0
    /\ highlighted = 0
    /\ opts \in {[cap |-> c, buffer_amount |-> 1, buffer_ratio |-> RatioDen] :
                   c \in 1..MaxCap}
    /\ num_senders = 0
    /\ chan = <<>>
    /\ epoch = 0
    /\ workers = EmptyBag
    /\ session = 0
    /\ panic = "none"
    /\ last = Step("Init", NoMsg, <<>>)
    /\ win = NoWin
    /\ wout = NoOut
    /\ hist = <<>>
    /\ cfg = NoCfg
    /\ page = NoPage

Op(op, k) == [op |-> op, k |-> k]

\* the loop of buffer_posts over a window of the one post k: contains, and
\* for an absent key put(None)
MarkPending(k) ==
    /\ Running
    /\ Len(hist) < MaxHist
    /\ LET r == buffer_loop(<<ViewablePost(k, TRUE)>>, content_cache, opts.cap,
                            <<>>)
       IN  /\ content_cache' = r.cache
           /\ hist' = Append(hist, Op(IF r.disp = <<>> THEN "contains"
                                      ELSE "mark_pending", k))
    /\ UNCHANGED <<posts, feed, active_filters, mark_for_refresh, viewed,
                   highlighted, opts, fetchVars, session, panic, last, winVars, cfgVars, pageVars>>

\* the lookup of render_main_content, for the post k
LruRender(k) ==
    /\ Running
    /\ Len(hist) < MaxHist
    /\ content_cache' = LruGet(content_cache, k)
    /\ hist' = Append(hist, Op("get", k))
    /\ UNCHANGED <<posts, feed, active_filters, mark_for_refresh, viewed,
                   highlighted, opts, fetchVars, session, panic, last, winVars, cfgVars, pageVars>>

\* set_content for the post k
LruResolve(k) ==
    /\ Running
    /\ Len(hist) < MaxHist
    /\ LET c == set_content(content_cache, k, "text")
       IN  /\ content_cache' = c.cache
           /\ panic' = IF c.panic THEN "set_content" ELSE "none"
    /\ hist' = Append(hist, Op("resolve", k))
    /\ UNCHANGED <<posts, feed, active_filters, mark_for_refresh, viewed,
                   highlighted, opts, fetchVars, session, last, winVars, cfgVars, pageVars>>

NextLru ==
    \/ \E k \in LruKeys : MarkPending(k)
    \/ \E k \in LruKeys : LruRender(k)
    \/ \E k \in LruKeys : LruResolve(k)

SpecLru == InitLru /\ [][NextLru]_vars

\* ------------------------------------------------------------ the configuration alone
InitCfg ==
    /\ posts = <<>>
    /\ feed = Some(0)
    /\ active_filters = FALSE
    /\ content_cache = <<>>
    /\ mark_for_refresh = TRUE
    /\ viewed = 0
    /\ highlighted = 0
    /\ opts = [cap |-> 1, buffer_amount |-> 1, buffer_ratio |-> RatioDen]
    /\ num_senders = 0
    /\ chan = <<>>
    /\ epoch = 0
    /\ workers = EmptyBag
    /\ session = 0
    /\ panic = "none"
    /\ last = Step("Init", NoMsg, <<>>)
    /\ win = NoWin
    /\ wout = NoOut
    /\ hist = <<>>
    /\ \E fc \in FileConfigs : cfg = [NoCfg EXCEPT !.fc = fc]
    /\ page = NoPage

\* Options::default and State::new: the options are made of the file, and
\* the cache is created
LoadConfig ==
    /\ ~cfg.set
    /\ cfg' = [cfg EXCEPT !.set = TRUE, !.options = from(cfg.fc),
                          !.cap = empty_map]
    /\ UNCHANGED <<stateVars, opts, fetchVars, session, panic, last, winVars,
                   lruVars, pageVars>>

NextCfg == LoadConfig

SpecCfg == InitCfg /\ [][NextCfg]_vars

\* ------------------------------------------------------------ the page pull alone
PageYields == UNION {[1..n -> {"ok", "err"}] : n \in 0..PageMaxYield}

\* the state after the first page request of State::new's feed: the handle
\* is with the thread of MorePosts::fetch
InitPage ==
    /\ posts = <<>>
    /\ feed = None
    /\ active_filters = FALSE
    /\ content_cache = <<>>
    /\ mark_for_refresh = FALSE
    /\ viewed = 0
    /\ highlighted = 0
    /\ opts = [cap |-> 1, buffer_amount |-> 1, buffer_ratio |-> RatioDen]
    /\ num_senders = 1
    /\ chan = <<>>
    /\ epoch = 0
    /\ workers = SetToBag({[kind |-> "page", id |-> 0, ch |-> 0, sess |-> 0]})
    /\ session = 0
    /\ panic = "none"
    /\ last = Step("Init", NoMsg, <<>>)
    /\ win = NoWin
    /\ wout = NoOut
    /\ hist = <<>>
    /\ cfg = NoCfg
    /\ \E y \in PageYields : page = [yield |-> y, done |-> FALSE]

\* the thread of MorePosts::fetch, on what the provider yields to it
PagePull ==
    /\ \E w \in BagToSet(workers) :
          /\ w.kind = "page"
          /\ chan' = Send(w, Msg("PostsReady", 0, "none", Collect(page.yield),
                                 w.sess))
          /\ workers' = Exit(w)
    /\ page' = [page EXCEPT !.done = TRUE]
    /\ UNCHANGED <<stateVars, opts, num_senders, epoch, session, panic, last,
                   winVars, lruVars, cfgVars>>

NextPage == PagePull

SpecPage == InitPage /\ [][NextPage]_vars

\* ------------------------------------------------------------ the iced application alone
\* UIState::ViewingPostFeed of main.rs, as Message::LoggedIn builds it:
\* highlighted is 0 and posts holds what the feed gave. A usize above the
\* range a Vec can index is written as the negative number it wraps to, so
\* that usize::MAX is -1
InitUi ==
    /\ \E n \in 0..MaxPosts : posts = extend_posts(<<>>, [i \in 1..n |-> TRUE])
    /\ feed = None
    /\ active_filters = FALSE
    /\ content_cache = <<>>
    /\ mark_for_refresh = FALSE
    /\ viewed = 0
    /\ highlighted = 0
    /\ opts = [cap |-> 1, buffer_amount |-> 1, buffer_ratio |-> RatioDen]
    /\ num_senders = 0
    /\ chan = <<>>
    /\ epoch = 0
    /\ workers = EmptyBag
    /\ session = 0
    /\ panic = "none"
    /\ last = Step("Init", NoMsg, <<>>)
    /\ win = NoWin
    /\ wout = NoOut
    /\ hist = <<>>
    /\ cfg = NoCfg
    /\ page = NoPage

\* Action::PostUp: *highlighted -= 1; at 0 the subtraction overflows, which
\* panics in a build with overflow checks and wraps to usize::MAX without
PostUp ==
    /\ Running
    /\ highlighted > 0 - UiMaxKeys
    /\ IF highlighted = 0
       THEN \/ panic' = "overflow" /\ highlighted' = highlighted
            \/ panic' = panic /\ highlighted' = highlighted - 1
       ELSE panic' = panic /\ highlighted' = highlighted - 1
    /\ UNCHANGED <<posts, feed, active_filters, content_cache, mark_for_refresh,
                   viewed, opts, fetchVars, session, last, winVars, lruVars,
                   cfgVars, pageVars>>

\* Action::PostDown: *highlighted += 1; at usize::MAX the addition overflows
PostDown ==
    /\ Running
    /\ highlighted < UiMaxKeys
    /\ IF highlighted = 0 - 1
       THEN \/ panic' = "overflow" /\ highlighted' = highlighted
            \/ panic' = panic /\ highlighted' = highlighted + 1
       ELSE panic' = panic /\ highlighted' = highlighted + 1
    /\ UNCHANGED <<posts, feed, active_filters, content_cache, mark_for_refresh,
                   viewed, opts, fetchVars, session, last, winVars, lruVars,
                   cfgVars, pageVars>>

NextUi == PostUp \/ PostDown

SpecUi == InitUi /\ [][NextUi]_vars

\* ------------------------------------------------------------ claims
StoreIds == {posts[i].post_id : i \in 1..Len(posts)}

\* the message a Poll step takes is one set_content is called with
AppliesContent(m) ==
    /\ m.type \in {"ContentReady", "ImageDecoded"}
    /\ m.content # "bytes"

\* C1: the Content Cache never holds more entries than its capacity
C1_CacheWithinCapacity == Len(content_cache) <= opts.cap

\* C1 witness: the cache is full and the entry of a fetch still running has
\* been evicted from it
C1_Witness ==
    /\ Len(content_cache) = opts.cap
    /\ \E w \in BagToSet(workers) :
          w.kind = "content" /\ w.sess = session /\ w.id \notin Keys(content_cache)

\* C2: every content fetch a buffering tick dispatches is for a key that was
\* absent from the cache when it was tested, and pending right after
C2_DispatchOnlyAbsent ==
    last.op = "BufferPosts" =>
        \A i \in 1..Len(last.disp) :
            ~last.disp[i].was_cached /\ last.disp[i].entry = "pending"

\* C2 witness: a tick dispatched a fetch and skipped a cached post
C2_Witness ==
    /\ last.op = "BufferPosts"
    /\ last.disp # <<>>
    /\ \E k \in Keys(content_cache) : \A i \in 1..Len(last.disp) : last.disp[i].id # k

\* C3: every key of the Content Cache is the index of an item of the Item Store
C3_CacheKeysInStore == Keys(content_cache) \subseteq StoreIds

\* C3 witness: the cache of the session that follows a feed replacement holds
\* an entry
C3_Witness == session > 0 /\ content_cache # <<>>

C5_FailureResolvesCounter ==
    (last.op = "Failed" /\ workers = EmptyBag /\ chan = <<>>) => ~is_working

\* C6: the second of two successive buffering ticks dispatches no fetch
C6_SecondTickIdle ==
    [][(last.op = "BufferPosts" /\ last'.op = "BufferPosts" /\ panic' = "none")
          => last'.disp = <<>>]_vars

\* C7: applying a ContentReady or ImageDecoded outcome whose key is absent
\* from the cache leaves the cache as it is and does not panic
C7_AbsentIsNoOp ==
    [][(/\ last'.op = "Poll"
        /\ chan # <<>>
        /\ Head(chan).type \in {"ContentReady", "ImageDecoded"}
        /\ ~LruContains(content_cache, Head(chan).id))
          => (content_cache' = content_cache /\ panic' = "none")]_vars

\* C7 witness: an outcome was applied whose entry had been evicted, while the
\* cache holds other entries
C7_Witness ==
    /\ last.op = "Poll"
    /\ AppliesContent(last.msg)
    /\ last.msg.id \notin Keys(content_cache)
    /\ content_cache # <<>>
    /\ panic = "none"

\* C8: set_content on an absent key changes nothing, on a resolved entry it
\* panics, and it sets the content only of a pending entry
C8_ResolveNeedsPending ==
    [][(last'.op = "Poll" /\ chan # <<>> /\ AppliesContent(Head(chan))) =>
          LET m == Head(chan)
              pre == LruVal(content_cache, m.id)
          IN  /\ pre = NoEntry => (content_cache' = content_cache /\ panic' = "none")
              /\ pre \notin {NoEntry, "pending"} =>
                    (panic' = "set_content" /\ LruVal(content_cache', m.id) = pre)
              /\ pre = "pending" =>
                    (panic' = "none" /\ LruVal(content_cache', m.id) = m.content)]_vars

\* C8 witness: an outcome was applied to an entry that was resolved already
C8_Witness == panic = "set_content" /\ last.op = "Poll"

\* C9: with more items than the buffer amount, the window contains the focus
C9_WindowContainsFocus ==
    (wout.set /\ win.len > win.amount /\ win.idx < win.len) =>
        (~wout.panic /\ wout.lo <= win.idx /\ win.idx < wout.hi)

\* C10: with no more items than the buffer amount, the window is the whole
\* vector, whatever the focus
C10_SmallVectorWhole ==
    (wout.set /\ win.len <= win.amount) =>
        (~wout.panic /\ wout.lo = 0 /\ wout.hi = win.len)

\* C10 witness: a vector of exactly the buffer amount, focused on its last item
C10_Witness ==
    /\ wout.set
    /\ win.len = win.amount
    /\ win.len > 1
    /\ win.idx = win.len - 1
    /\ wout.hi = win.len

\* the three scenarios of the window: the focus in the middle, at the start
\* and at the end of 100 items, with amount 10 and ratio 0.75
ScenarioA == [len |-> 100, idx |-> 50, amount |-> 10, ratio |-> (3 * RatioDen) \div 4]
ScenarioB == [len |-> 100, idx |-> 1, amount |-> 10, ratio |-> (3 * RatioDen) \div 4]
ScenarioC == [len |-> 100, idx |-> 99, amount |-> 10, ratio |-> (3 * RatioDen) \div 4]

\* the window of a scenario has been selected, the ratio being 0.75 exactly
AtScenario(sc) == wout.set /\ win = sc /\ 4 * sc.ratio = 3 * RatioDen

\* C11: with more items than the buffer amount and no clamp, the window is
\* [focus - front, focus + back); amount 10 and ratio 0.75 give back 8 and
\* front 2, and the focus 50 of 100 items gives [48, 58)
C11_UnclampedWindow ==
    /\ (/\ wout.set
        /\ win.len > win.amount
        /\ win.idx >= left_side(win.amount, win.ratio)
        /\ win.idx + right_side(win.amount, win.ratio) <= win.len)
          => /\ ~wout.panic
             /\ wout.lo = win.idx - left_side(win.amount, win.ratio)
             /\ wout.hi = win.idx + right_side(win.amount, win.ratio)
    /\ AtScenario(ScenarioA) =>
          /\ right_side(win.amount, win.ratio) = 8
          /\ left_side(win.amount, win.ratio) = 2
          /\ wout.lo = 48
          /\ wout.hi = 58

\* C12: with more items than the buffer amount and focus + back beyond the
\* end, the window ends at the number of items and starts the buffer amount
\* before it; the focus 99 of 100 items gives [90, 100)
C12_EndClamp ==
    /\ (/\ wout.set
        /\ win.len > win.amount
        /\ win.idx < win.len
        /\ win.idx >= left_side(win.amount, win.ratio)
        /\ win.idx + right_side(win.amount, win.ratio) > win.len)
          => /\ ~wout.panic
             /\ wout.hi = win.len
             /\ wout.lo = win.len - win.amount
    /\ AtScenario(ScenarioC) => (wout.lo = 90 /\ wout.hi = 100)

\* C13: with more items than the buffer amount and the focus closer to the
\* start than front, the window starts at 0 and ends at focus + back; the
\* focus 1 of 100 items with amount 10 and ratio 0.75 gives [0, 9)
C13_StartClamp ==
    /\ (/\ wout.set
        /\ win.len > win.amount
        /\ win.idx < left_side(win.amount, win.ratio))
          => /\ ~wout.panic
             /\ wout.lo = 0
             /\ wout.hi = win.idx + right_side(win.amount, win.ratio)
    /\ AtScenario(ScenarioB) => (wout.lo = 0 /\ wout.hi = 9)

\* C13 witness: the window of the focus 1 of 100 items has been selected
C13_Witness == AtScenario(ScenarioB) /\ wout.hi = 9

\* C13 as stated: the start clamp starts the window at 0, and the focus 1 of
\* 100 items with amount 10 and ratio 0.75 gives [0, 8)
C13_StartClampAsStated ==
    /\ (/\ wout.set
        /\ win.len > win.amount
        /\ win.idx < left_side(win.amount, win.ratio))
          => (~wout.panic /\ wout.lo = 0)
    /\ AtScenario(ScenarioB) => (wout.lo = 0 /\ wout.hi = 8)

\* the place in hist of the last operation that touched the entry of k: a
\* put, a get or a set_content, and not the contains test of a tick
LastTouch(h, k) ==
    LET at == {i \in 1..Len(h) : h[i].k = k /\ h[i].op # "contains"}
    IN  IF at = {} THEN 0 ELSE CHOOSE i \in at : \A j \in at : j <= i

\* the entries a step removes from the cache
Evicted == Keys(content_cache) \ Keys(content_cache')

\* the step marks a key pending that was absent from a full cache
PutAtCapacity ==
    /\ hist' # hist
    /\ hist'[Len(hist')].op = "mark_pending"
    /\ Len(content_cache) = opts.cap

\* scenario D: capacity 2, and mark_pending of 1, 2 and 3
ScenarioD ==
    /\ opts.cap = 2
    /\ hist = <<Op("mark_pending", 1), Op("mark_pending", 2), Op("mark_pending", 3)>>

\* C14: marking an absent key pending in a full cache evicts exactly one
\* entry, the least recently used one, whether it is pending or resolved;
\* after mark_pending of 1, 2 and 3 with capacity 2 the cache holds 2 and 3
C14_EvictsLeastRecent ==
    /\ [][PutAtCapacity =>
            /\ Cardinality(Evicted) = 1
            /\ Keys(content_cache') =
                  (Keys(content_cache) \ Evicted) \cup {hist'[Len(hist')].k}
            /\ LruVal(content_cache', hist'[Len(hist')].k) = "pending"
            /\ \A e \in Evicted : \A k \in Keys(content_cache) :
                  LastTouch(hist, e) <= LastTouch(hist, k)]_vars
    /\ [](ScenarioD => Keys(content_cache) = {2, 3})

\* C14 witness: with capacity 2, the pending entry of 1 was evicted although
\* the entry of 2, which is kept, is resolved
C14_Witness ==
    /\ opts.cap = 2
    /\ hist = <<Op("mark_pending", 1), Op("mark_pending", 2), Op("resolve", 2),
                Op("mark_pending", 3)>>
    /\ Keys(content_cache) = {2, 3}

\* C15: the entry an insertion evicts is the one whose last get, put or
\* set_content is the oldest among the entries of the cache
C15_StrictLru ==
    [][\A e \in Evicted : \A k \in Keys(content_cache) :
          LastTouch(hist, e) <= LastTouch(hist, k)]_vars

\* C15 witness: with capacity 2, a get or a set_content of the older of two
\* entries made the insertion of a third key evict the younger one
C15_Witness ==
    /\ opts.cap = 2
    /\ Len(hist) = 4
    /\ hist[1].op = "mark_pending"
    /\ hist[2].op = "mark_pending"
    /\ hist[3].op \in {"get", "resolve"}
    /\ hist[3].k = hist[1].k
    /\ hist[4].op = "mark_pending"
    /\ hist[1].k \in Keys(content_cache)
    /\ hist[2].k \notin Keys(content_cache)

\* C16: one poll takes the first queued outcome and leaves the others
\* queued; a poll of an empty queue returns no outcome and leaves the
\* in-flight counter, the store, the cache and the workers as they are
C16_PollTakesOne ==
    [][last'.op = "Poll" =>
          IF chan = <<>>
          THEN /\ last'.msg = NoMsg
               /\ chan' = <<>>
               /\ num_senders' = num_senders
               /\ UNCHANGED <<posts, feed, content_cache, workers, panic>>
          ELSE /\ last'.msg = Head(chan)
               /\ chan' = Tail(chan)]_vars

\* C16 witness: a poll took an outcome and left another one queued
C16_Witness == last.op = "Poll" /\ last.msg.type # "none" /\ chan # <<>>

\* C17: the item at position k of the Item Store has the index k, and within
\* a feed session the store only grows at its end, so that no index is given
\* to two items
C17_IndexIsPosition ==
    /\ [](\A i \in 1..Len(posts) : posts[i].post_id = i - 1)
    /\ [][session' = session =>
            /\ Len(posts') >= Len(posts)
            /\ SubSeq(posts', 1, Len(posts)) = posts]_vars

\* C17 witness: a page has been appended to a store that held items already
C17_Witness ==
    /\ last.op = "Poll"
    /\ last.msg.type = "PostsReady"
    /\ last.msg.items # <<>>
    /\ Len(posts) > Len(last.msg.items)
    /\ panic = "none"

InFlight(i) ==
    \/ \E w \in BagToSet(workers) :
          w.kind \in {"content", "decode"} /\ w.id = i /\ w.ch = epoch
    \/ \E j \in 1..Len(chan) :
          chan[j].type \in {"ContentReady", "ImageDecoded"} /\ chan[j].id = i

\* the entry of i is pending and nothing is left that could resolve it
Orphan(i) == LruVal(content_cache, i) = "pending" /\ ~InFlight(i)

\* C19: a failing content resolution queues no outcome and dispatches
\* nothing; a pending entry no fetch is left for stays pending until it is
\* evicted or the feed is reset, and a tick dispatches a fetch for its post
\* only after an earlier put of the same tick has evicted it from the full
\* cache
C19_FailureLeavesPending ==
    /\ [][last'.op = "Failed" =>
            /\ chan' = chan
            /\ content_cache' = content_cache
            /\ num_senders' = num_senders
            /\ \A w \in BagToSet(workers') :
                  CopiesIn(w, workers') <= CopiesIn(w, workers)]_vars
    /\ [][\A i \in Keys(content_cache) : Orphan(i) =>
            /\ LruVal(content_cache', i) \in {"pending", NoEntry}
            /\ InFlight(i)' =>
                  /\ last'.op = "BufferPosts"
                  /\ Len(content_cache) = opts.cap
                  /\ \E j \in 2..Len(last'.disp) :
                        last'.disp[j].id = i /\ ~last'.disp[j].was_cached]_vars

\* C19 witness: the one fetch for the only post has failed, and its entry is
\* pending with no worker and no outcome left
C19_Witness ==
    /\ last.op = "Failed"
    /\ session = 0
    /\ Len(posts) = 1
    /\ workers = EmptyBag
    /\ chan = <<>>
    /\ Orphan(0)

\* the poll takes a ContentReady outcome that carries the bytes of an image
TakesImageBytes ==
    /\ last'.op = "Poll"
    /\ chan # <<>>
    /\ Head(chan).type = "ContentReady"
    /\ Head(chan).content = "bytes"
    /\ num_senders > 0

\* C20: applying a ContentReady outcome that carries image bytes leaves the
\* cache as it is, the entry of its post still pending, and starts a
\* decoding thread for the same post; the entry of an image post is resolved
\* only by applying the ImageDecoded outcome of that post
C20_ImageHandOff ==
    /\ [][TakesImageBytes =>
            /\ content_cache' = content_cache
            /\ panic' = "none"
            /\ num_senders' = num_senders
            /\ workers' = workers (+)
                  SetToBag({[kind |-> "decode", id |-> Head(chan).id,
                             ch |-> epoch, sess |-> Head(chan).sess]})]_vars
    /\ [][\A i \in Keys(content_cache) :
            (/\ Renderable(i)
             /\ LruVal(content_cache, i) = "pending"
             /\ LruVal(content_cache', i) \notin {"pending", NoEntry})
               => /\ last'.op = "Poll"
                  /\ last'.msg.type = "ImageDecoded"
                  /\ last'.msg.id = i
                  /\ LruVal(content_cache', i) = last'.msg.content]_vars

\* C20 witness: the decoded image of a post has been applied to its entry,
\* after the bytes of the post were handed to a decoding thread
C20_Witness ==
    /\ last.op = "Poll"
    /\ last.msg.type = "ImageDecoded"
    /\ LruVal(content_cache, last.msg.id) = "image"
    /\ panic = "none"

\* C21: applying a ContentReady or ImageDecoded outcome never panics and
\* changes no entry of the cache but the one of the post it carries,
\* whatever the order in which the outcomes arrive
C21_AnyOrderApplies ==
    [][(/\ last'.op = "Poll"
        /\ chan # <<>>
        /\ Head(chan).type \in {"ContentReady", "ImageDecoded"}
        /\ num_senders > 0)
          => /\ panic' = "none"
             /\ \A k \in Keys(content_cache) \cup Keys(content_cache') :
                   k # Head(chan).id =>
                      LruVal(content_cache', k) = LruVal(content_cache, k)]_vars

\* C22: the options made of a configuration file have buffer_amount in
\* 1..50, 25 when the file gives none, and buffer_ratio in 0.0..1.0, 0.75
\* when the file gives none; the capacity of the cache is 250
C22_OptionsClamped ==
    cfg.set =>
        /\ cfg.options.buffer_amount \in 1..50
        /\ ~cfg.fc.buffer_amount.some => cfg.options.buffer_amount = 25
        /\ ~cfg.options.buffer_ratio.nan
        /\ cfg.options.buffer_ratio.v \in 0..100
        /\ ~cfg.fc.buffer_ratio.some => cfg.options.buffer_ratio.v = 75
        /\ cfg.cap = 250

\* C22 witness: a file with a buffer_amount above 50 and a negative
\* buffer_ratio has been loaded
C22_Witness ==
    /\ cfg.set
    /\ cfg.fc.buffer_amount.some
    /\ cfg.fc.buffer_amount.v > 50
    /\ cfg.fc.buffer_ratio.some
    /\ ~cfg.fc.buffer_ratio.v.nan
    /\ cfg.fc.buffer_ratio.v.v < 0
    /\ cfg.options.buffer_amount = 50
    /\ cfg.options.buffer_ratio.v = 0

\* the posts a tick dispatched a fetch for
Dispatched(disp) == {disp[j].id : j \in 1..Len(disp)}

\* the posts of the window of the filtered sequence at the focus
WindowIds ==
    LET current == filter_posts(posts, active_filters)
        w == current_buffer(Len(current), viewed, opts.buffer_amount,
                            opts.buffer_ratio)
    IN  {current[j].post_id : j \in (w.lo + 1)..w.hi}

\* C23: a buffering tick dispatches one fetch for every post of the window
\* of the filtered sequence that the cache does not contain when the loop
\* tests it, and a thread for each; it dispatches nothing for a post outside
\* the window or one an active filter rejects
C23_TickDispatchesWindow ==
    [][(last'.op = "BufferPosts" /\ panic' = "none") =>
          LET D == Dispatched(last'.disp)
          IN  /\ D \subseteq WindowIds
              /\ {i \in WindowIds : i \notin Keys(content_cache)} \subseteq D
              /\ Cardinality(D) = Len(last'.disp)
              /\ \A j \in 1..Len(last'.disp) : ~last'.disp[j].was_cached
              /\ \A i \in D : active_filters => posts[i + 1].renderable
              /\ \A i \in D : i \in Keys(content_cache) =>
                    Len(content_cache) = opts.cap
              /\ num_senders' = num_senders + Cardinality(D)
              /\ NumWorkers' = NumWorkers + Cardinality(D)
              /\ \A i \in D : \E w \in BagToSet(workers') :
                    w.kind = "content" /\ w.id = i /\ w.ch = epoch]_vars

\* C23 witness: with the filter active a tick dispatched a fetch, and none
\* for a post of the store the filter rejects, which has no entry
C23_Witness ==
    /\ last.op = "BufferPosts"
    /\ panic = "none"
    /\ active_filters
    /\ last.disp # <<>>
    /\ \E i \in 1..Len(posts) :
          ~posts[i].renderable /\ posts[i].post_id \notin Keys(content_cache)

\* C24: the assertion of set_content never fails
C24_SetContentAssertion == panic # "set_content"

C27_NoUnderflow == num_senders >= Len(chan) /\ panic # "underflow"

\* C27 witness: after a feed replacement a worker dispatched before it has
\* finished, while an outcome of the new feed is queued
C27_Witness == last.op = "Lost" /\ session > 0 /\ chan # <<>>

\* C28: a page request made while the feed handle is absent changes
\* nothing: a step that is taken without a handle, spawns no worker and
\* takes no outcome leaves the in-flight counter as it is
C28_AbsentHandleNoOp ==
    [][(~feed.some /\ workers' = workers /\ chan' = chan)
          => num_senders' = num_senders]_vars

\* the page pulls of the current feed in flight: the threads that run, and
\* the pages queued with the handle they return
PagePulls ==
    CopiesIn(Worker("page", 0, session), workers)
      + Len(SelectSeq(chan, LAMBDA m : m.type = "PostsReady"))

C30_WindowInBounds ==
    (wout.set /\ win.idx < win.len) =>
        /\ ~wout.panic
        /\ 0 <= wout.lo
        /\ wout.lo <= wout.hi
        /\ wout.hi <= win.len

\* C30 witness: the window of the last item of a vector longer than the
\* buffer amount, with a ratio that puts nothing behind the focus
C30_Witness ==
    /\ wout.set
    /\ ~wout.panic
    /\ win.len > win.amount
    /\ win.idx = win.len - 1
    /\ left_side(win.amount, win.ratio) = 0
    /\ wout.lo = win.idx
    /\ wout.hi = win.idx

\* C31: the window never holds more items than the buffer amount
C31_WindowWithinAmount ==
    (wout.set /\ win.idx < win.len) => wout.hi - wout.lo <= win.amount

\* the entries of the cache, whatever their order of use
Entries(c) == {c[i] : i \in 1..Len(c)}

\* C32: the step of a worker leaves the Item Store and the Content Cache as
\* they are; the store and the entries of the cache change only when an
\* outcome is applied, in a buffering tick or when the feed is replaced
C32_WorkersOwnNothing ==
    /\ [][NumWorkers' < NumWorkers => UNCHANGED <<posts, content_cache>>]_vars
    /\ [][(posts' # posts \/ Entries(content_cache') # Entries(content_cache))
            => \/ last'.op = "Poll" /\ chan # <<>>
               \/ last'.op = "BufferPosts"
               \/ session' # session]_vars

\* C32 witness: a content worker has sent its outcome and ended, and the
\* entry of its post is still pending
C32_Witness ==
    /\ last.op = "Other"
    /\ NumWorkers = 0
    /\ chan # <<>>
    /\ chan[Len(chan)].type = "ContentReady"
    /\ LruVal(content_cache, chan[Len(chan)].id) = "pending"
    /\ posts # <<>>

\* the entry of k goes from the state a to the state b in one of the ways
\* an entry may: it stays, it is removed, an absent key is marked pending,
\* or the pending entry is resolved
EntryStep(a, b) ==
    \/ b = a
    \/ b = NoEntry
    \/ a = NoEntry /\ b = "pending"
    \/ a = "pending" /\ b \notin {"pending", NoEntry}

\* C33: a resolved entry keeps its content for as long as it is in the
\* cache: an entry only goes from absent to pending, from pending to
\* resolved, and from any state to absent
C33_EntryLifecycle ==
    [][\A k \in Keys(content_cache) \cup Keys(content_cache') :
          EntryStep(LruVal(content_cache, k), LruVal(content_cache', k))]_vars

\* C33 witness: with capacity 1 the entry of 1 was resolved, evicted by the
\* put of 2, and marked pending again
C33_Witness ==
    /\ opts.cap = 1
    /\ hist = <<Op("mark_pending", 1), Op("resolve", 1), Op("mark_pending", 2),
                Op("mark_pending", 1)>>
    /\ LruVal(content_cache, 1) = "pending"

\* the results of a pull that are items
Obtained(yield) == {i \in 1..Len(yield) : yield[i] = "ok"}

\* C34: the thread of a page pull sends one PostsReady message with the
\* feed handle it took; the message carries the first 15 items the provider
\* yielded, or all of them if they are fewer, also none, and no failed result
C34_PageSentOnce ==
    page.done =>
        /\ workers = EmptyBag
        /\ Len(chan) = 1
        /\ chan[1].type = "PostsReady"
        /\ chan[1].sess = 0
        /\ Len(chan[1].items) <= 15
        /\ Len(chan[1].items) = Min(Cardinality(Obtained(page.yield)), 15)
        /\ \A i \in 1..Len(chan[1].items) : chan[1].items[i] = "ok"

\* C34 witness: the provider yielded more than 15 items, and 15 were sent
C34_Witness ==
    /\ page.done
    /\ Cardinality(Obtained(page.yield)) > 15
    /\ Len(chan[1].items) = 15

\* C35: the post the summary component shows and the post whose content the
\* main component shows are the same post
C35_SameFocusedPost == summary_post = main_post

\* C36: after any PostUp and PostDown actions the highlighted index is that
\* of a post, and no subtraction or addition on it overflows
C36_HighlightInRange ==
    /\ panic # "overflow"
    /\ posts # <<>> => (0 <= highlighted /\ highlighted < Len(posts))

====
